---- MODULE Spec2Model ----
(***************************************************************************)
(* Frame processing, cooldown gate, event history and preset persistence   *)
(* of the FocusCC / charmCCM front ends.                                   *)
(*                                                                         *)
(* Six front ends share the pipeline:                                      *)
(*   "ccqt"    src/versions/v3/ccqt.py  edge density, Qt                   *)
(*   "cc_v3"   src/versions/v3/cc.py    edge density, Tk                   *)
(*   "cc_110"  src/cc_110.py            edge density, Tk                   *)
(*   "cc"      src/cc.py                edge density, Tk                   *)
(*   "ccm"     src/versions/v3/ccm.py   mean intensity, Qt                 *)
(*   "ccm_100" src/ccm_100.py           mean intensity, Qt                 *)
(* Times are whole seconds of time.time(); contrast and saturation are     *)
(* kept in tenths (10 stands for 1.0).                                     *)
(***************************************************************************)
EXTENDS Integers, Sequences, FiniteSets, TLC

VARIABLES
    variant,          \* which front end is running
    now,              \* the value time.time() returned to the latest frame
    running,          \* global running / settings.running
    cap,              \* the cv2.VideoCapture: "none", "open" or "closed"
    params,           \* the live tunable parameters
    save_events,      \* save_events / save_images
    last_event_time,  \* last_event_time / last_saved_time
    saved_images,     \* file names written by cv2.imwrite
    xvals,            \* PlotManager.xvals
    mean_values,      \* PlotManager.mean_values
    event_lines,      \* PlotManager.event_lines (marker positions)
    event_labels,     \* PlotManager.event_labels
    frames,           \* number of frames processed so far
    obs,              \* what the last processed frame saw and did
    last_fire,        \* time of the last fired event, NoEvent before the first
    recorded,         \* every event record appended since the last clear
    sliders,          \* the values the slider widgets hold
    canny_range,      \* canny_low_min, canny_low_max, canny_high_min, canny_high_max
    preset_name,      \* text of the preset name entry (global preset_name)
    preset_combo,     \* name selected in the preset drop-down
    available_presets,\* the list the overwrite check consults
    disk,             \* the preset files: name -> content
    crashed,          \* an uncaught exception has ended the Qt application
    saved_at,         \* live parameters when each name was last saved
    pobs,             \* what the last preset operation did
    edits,            \* number of changes the user made to controls and files
    pending,          \* new_frame signals emitted and not yet delivered
    feed,             \* where the GUI thread is inside the per-frame call
    chains,           \* scheduled update_feed callbacks (Tk) / active timer (Qt)
    ticks,            \* outcome of each polling callback or thread read so far
    thread,           \* position of the camera thread inside CameraThread.run
    waiting           \* which handler of the GUI thread is inside thread.wait()

\* The camera thread's queue and the position of the GUI thread.
queue_vars == <<pending, feed>>

\* The polling machinery: timers, callbacks and the camera thread.
poll_vars == <<chains, ticks, thread, waiting>>

\* Everything the scheduling of frames consists of.
loop_vars == <<queue_vars, poll_vars>>

\* Everything else.
prog_vars == <<variant, now, running, cap, params, save_events,
               last_event_time, saved_images, xvals, mean_values, event_lines,
               event_labels, frames, obs, last_fire, recorded, sliders,
               canny_range, preset_name, preset_combo, available_presets,
               disk, crashed, saved_at, pobs, edits>>

vars == <<prog_vars, loop_vars>>

\* What the preset operations alone read and write.
store_vars == <<preset_name, preset_combo, available_presets, disk, crashed,
                saved_at, pobs>>

\* What the frame pipeline never touches.
preset_vars == <<sliders, canny_range, store_vars, edits>>

\* What the preset operations never touch.
frame_vars == <<now, running, cap, save_events, last_event_time, saved_images,
                xvals, mean_values, event_lines, event_labels, frames, obs,
                last_fire, recorded, loop_vars>>

plot_vars == <<xvals, mean_values, event_lines, event_labels, recorded>>

------------------------------------------------------------------------------
(* Bounds of the model *)

StartTime == 1700000000
MaxTime == 6
MaxFrames == 2
MaxHistFrames == 12
MaxEdits == 1
MaxOps == 2
MaxDetectFrames == 1
MaxLoopFrames == 2
MaxChains == 2
MaxTicks == 3

------------------------------------------------------------------------------
(* Front ends and program constants *)

EdgeVariants == {"ccqt", "cc_v3", "cc_110", "cc"}
MeanVariants == {"ccm", "ccm_100"}
TkVariants == {"cc_v3", "cc_110", "cc"}
Variants == EdgeVariants \cup MeanVariants

max_event_lines == 10

FRAME_WIDTH(v) == IF v = "ccqt" THEN 960 ELSE 640
FRAME_HEIGHT(v) == IF v = "ccqt" THEN 640 ELSE 480

\* The range of the cooldown control of each front end.
CooldownMin(v) == IF v = "ccm" THEN 0 ELSE 1
CooldownMax == 60

\* The initial value of the detection threshold of each front end.
DefaultThreshold(v) == IF v \in MeanVariants THEN 128 ELSE 1000

DefaultParams(v) ==
    [threshold        |-> DefaultThreshold(v),
     low_threshold    |-> 50,
     high_threshold   |-> 150,
     contrast         |-> 10,
     brightness       |-> 0,
     saturation       |-> 10,
     black_point      |-> 0,
     cooldown         |-> 5,
     cooldown_enabled |-> TRUE,
     filename_prefix  |-> "event",
     detection_area   |-> <<0, 0, FRAME_WIDTH(v), FRAME_HEIGHT(v)>>,
     gaussian_blur    |-> 5]

------------------------------------------------------------------------------
(* Inputs *)

\* Values the detector can return for a frame: the edge-pixel count of the
\* edge-density front ends, the mean intensity of the mean-intensity ones.
DetectorValues(v) == IF v \in MeanVariants THEN {100, 200} ELSE {500, 1500}

\* Values the user gives the cooldown control.
CooldownChoices(v) == {c \in {0, 1, 5} : CooldownMin(v) <= c /\ c <= CooldownMax}

\* What time.time() can return to a frame handler when the frame before got
\* the time now: the clock does not go back.
Times == now .. (StartTime + MaxTime)

NoEvent == 0 - 1

\* The front ends with the four detection-area sliders.
HasDetectionArea(v) == v \in {"ccqt", "cc_v3"}

\* The edge map of a frame, by quarter of the frame: Cells are the four
\* rectangles cut by the middle column XCuts[2] and the middle row YCuts[2],
\* and an edge map gives the number of non-zero pixels in each.
Cells == {1, 2} \X {1, 2}
XCuts(v) == <<0, 320, FRAME_WIDTH(v)>>
YCuts(v) == <<0, 240, FRAME_HEIGHT(v)>>

\* The edge map of a frame without edges, such as an all-black frame.
NoEdges == [c \in Cells |-> 0]

\* An edge map with count non-zero pixels, 500 to a cell.
EdgeMapOf(count) ==
    [c \in Cells |->
        IF 500 * (2 * (c[2] - 1) + c[1]) <= count THEN 500 ELSE 0]

\* The GUI thread is in the event loop, between two callbacks.
Idle == [busy |-> FALSE, read |-> DefaultParams("ccqt"), mean |-> 0]

NoObs == [n |-> 0, criterion |-> FALSE, fired |-> FALSE, t |-> 0, prev |-> 0,
          had_event |-> FALSE, last_fire |-> NoEvent, enabled |-> TRUE,
          interval |-> 0, saving |-> FALSE, edges |-> NoEdges,
          masked |-> NoEdges, count |-> 0, threshold |-> 0,
          area |-> <<0, 0, 0, 0>>, conditioned |-> FALSE, points |-> 0,
          kernel |-> 5,
          pixel |-> <<0, 0, 0>>, pixel_out |-> <<0, 0, 0>>,
          video |-> [contrast |-> 10, brightness |-> 0, saturation |-> 10,
                     black_point |-> 0]]

------------------------------------------------------------------------------
(* The cooldown gate *)

\* A gate that lets a frame through exactly one interval after the event.
EdgeGateAtInterval(criterion, t, last, enabled, interval) ==
    criterion /\ (~enabled \/ (t - last) >= interval)

\* ccqt.py:538, cc.py:91, cc_110.py:100, v3/cc.py:116
EdgeGate(criterion, t, last, enabled, interval) ==
    criterion /\ (~enabled \/ (t - last) > interval)

\* ccm.py:455-456, ccm_100.py:375-376
MeanGate(criterion, t, last, interval) ==
    criterion /\ (t - last) >= interval

\* f"{prefix}_{int(current_time)}.ext"
FileName(prefix, t) == <<prefix, t>>

------------------------------------------------------------------------------
(* Event history (PlotManager of ccm.py, inline in ccm_100.py) *)

\* A pruning that drops the newest entry above the cap.
PruneNewest(items) ==
    IF Len(items) > max_event_lines
    THEN SubSeq(items, 1, Len(items) - 1)
    ELSE items

\* ccm.py:156-161, ccm_100.py:401-406: drop the oldest entry above the cap.
Prune(items) ==
    IF Len(items) > max_event_lines THEN Tail(items) ELSE items

\* ccm.py:109-118, ccm_100.py:365-369: the next x value of the series.
NextX == IF xvals = <<>> THEN 0 ELSE xvals[Len(xvals)] + 1

\* ccm.py:133-161 mark_event, called after update_data has appended x.
MarkEvent(x_event, filename) ==
    /\ event_lines' = Prune(Append(event_lines, x_event))
    /\ event_labels' = Prune(Append(event_labels, [pos |-> x_event, text |-> filename]))
    /\ recorded' = Append(recorded, [pos |-> x_event, text |-> filename])

\* A clear that empties the scalar series and leaves the event history.
ClearPlotSeriesOnly ==
    /\ variant = "ccm"
    /\ xvals' = <<>>
    /\ mean_values' = <<>>
    /\ UNCHANGED <<variant, now, running, cap, params, save_events,
                   last_event_time, saved_images, frames, obs, last_fire,
                   preset_vars, event_lines, event_labels, recorded,
                   loop_vars>>

\* ccm.py:163-172 clear_plot
ClearPlot ==
    /\ variant = "ccm"
    /\ xvals' = <<>>
    /\ mean_values' = <<>>
    /\ event_lines' = <<>>
    /\ event_labels' = <<>>
    /\ recorded' = <<>>
    /\ UNCHANGED <<variant, now, running, cap, params, save_events,
                   last_event_time, saved_images, frames, obs, last_fire,
                   preset_vars, loop_vars>>

------------------------------------------------------------------------------
(* Camera start and stop *)

\* ccqt.py:473-486, v3/cc.py:153-167, cc.py:117-131, cc_110.py start_camera;
\* ccm.py:389-409, ccm_100.py:299-320.  opened: whether the device opens.
StartCamera(opened) ==
    /\ IF variant \in MeanVariants THEN ~running ELSE cap # "open"
    /\ cap' = IF opened THEN "open" ELSE "closed"
    /\ running' = IF opened THEN TRUE ELSE running
    /\ UNCHANGED <<variant, now, params, save_events, last_event_time,
                   saved_images, frames, obs, last_fire, plot_vars,
                   preset_vars, queue_vars>>

\* ccqt.py:488-495, v3/cc.py:169-176, cc.py:133-140; ccm.py:411-424,
\* ccm_100.py:322-336 (these release only an opened capture).
StopCamera ==
    /\ running' = FALSE
    /\ cap' = IF variant \in MeanVariants
              THEN (IF cap = "open" THEN "none" ELSE cap)
              ELSE "none"
    /\ UNCHANGED <<variant, now, params, save_events, last_event_time,
                   saved_images, frames, obs, last_fire, plot_vars,
                   preset_vars, queue_vars>>

------------------------------------------------------------------------------
(* Per-frame processing *)

\* A commit that stores nothing.
update_last_event_time_skipped(t) == last_event_time' = last_event_time

\* ccqt.py:590-592 update_last_event_time; the assignments of v3/cc.py:118,
\* cc.py:93, cc_110.py:102, ccm.py:457, ccm_100.py:377.
update_last_event_time(t) == last_event_time' = t

Observe(criterion, fired, enabled, current_time) ==
    [n |-> frames + 1, criterion |-> criterion, fired |-> fired,
     t |-> current_time,
     prev |-> last_event_time, had_event |-> (last_fire # NoEvent),
     last_fire |-> last_fire, enabled |-> enabled,
     interval |-> params.cooldown, saving |-> save_events,
     edges |-> NoEdges, masked |-> NoEdges, count |-> 0,
     threshold |-> params.threshold, area |-> params.detection_area,
     conditioned |-> FALSE, points |-> 0, kernel |-> 5,
     pixel |-> <<0, 0, 0>>, pixel_out |-> <<0, 0, 0>>,
     video |-> [contrast |-> params.contrast, brightness |-> params.brightness,
                saturation |-> params.saturation,
                black_point |-> params.black_point]]

\* A slice bound a on an axis of n pixels, as numpy reads it: a negative
\* bound counts from the end, and the result is kept within 0 .. n.
SliceIndex(a, n) ==
    IF a < 0 THEN (IF n + a < 0 THEN 0 ELSE n + a)
    ELSE IF a > n THEN n ELSE a

\* A mask that puts an inverted pair of bounds in order first.
ApplyMaskOrdered(v, edges, area) ==
    LET x1 == IF area[1] <= area[3] THEN area[1] ELSE area[3]
        x2 == IF area[1] <= area[3] THEN area[3] ELSE area[1]
        y1 == IF area[2] <= area[4] THEN area[2] ELSE area[4]
        y2 == IF area[2] <= area[4] THEN area[4] ELSE area[2]
    IN [c \in Cells |->
          IF \/ YCuts(v)[c[2]] < y1 \/ YCuts(v)[c[2] + 1] > y2
             \/ XCuts(v)[c[1]] < x1 \/ XCuts(v)[c[1] + 1] > x2
          THEN 0 ELSE edges[c]]

\* A mask that takes rows for columns.
ApplyMaskTransposed(v, edges, area) ==
    [c \in Cells |->
        IF \/ XCuts(v)[c[1]] < area[2] \/ XCuts(v)[c[1] + 1] > area[4]
           \/ YCuts(v)[c[2]] < area[1] \/ YCuts(v)[c[2] + 1] > area[3]
        THEN 0 ELSE edges[c]]

\* ccqt.py:528-533, v3/cc.py:107-112: edges[:y1, :] = 0, edges[y2:, :] = 0,
\* edges[:, :x1] = 0, edges[:, x2:] = 0.  A cell is set to zero when one of
\* the four slices reaches into it; the detection-area bounds the user picks
\* lie on the cuts, so a slice covers a cell wholly or not at all.  cc.py and
\* cc_110.py have no detection area.
ApplyMask(v, edges, area) ==
    IF ~HasDetectionArea(v) THEN edges
    ELSE LET x1 == SliceIndex(area[1], FRAME_WIDTH(v))
             y1 == SliceIndex(area[2], FRAME_HEIGHT(v))
             x2 == SliceIndex(area[3], FRAME_WIDTH(v))
             y2 == SliceIndex(area[4], FRAME_HEIGHT(v))
         IN [c \in Cells |->
               IF \/ YCuts(v)[c[2]] < y1
                  \/ YCuts(v)[c[2] + 1] > y2
                  \/ XCuts(v)[c[1]] < x1
                  \/ XCuts(v)[c[1] + 1] > x2
               THEN 0 ELSE edges[c]]

\* np.sum(edges > 0)
CountNonZero(edges) ==
    edges[<<1, 1>>] + edges[<<2, 1>>] + edges[<<1, 2>>] + edges[<<2, 2>>]

\* A criterion that a count equal to the threshold meets.
event_detected_at_threshold(count, threshold) == count >= threshold

\* ccqt.py:536, v3/cc.py:114, cc.py:89, cc_110.py:98
event_detected(count, threshold) == count > threshold

\* ccqt.py:578-588, v3/cc.py:132-140, cc.py:98-106, cc_110.py:116-124
handle_event(t) ==
    saved_images' = IF save_events
                    THEN saved_images \cup {FileName(params.filename_prefix, t)}
                    ELSE saved_images

\* ccqt.py:509-542, v3/cc.py:85-121, cc.py:70-96, cc_110.py:76-105.
\* A kernel size taken from the parameter as it is.
gb_val_as_is(v, k) == k

\* The kernel size handed to cv2.GaussianBlur: ccqt.py:524-525 makes it odd
\* at the call, v3/cc.py:104 passes gaussian_blur itself, cc.py:86 and
\* cc_110.py:95 pass 5.
gb_val(v, k) ==
    IF v = "ccqt" THEN (IF k % 2 = 1 THEN k ELSE k + 1)
    ELSE IF v = "cc_v3" THEN k
    ELSE 5

\* ret: whether cap.read() gave a frame; edges: what cv2.Canny returns for
\* it; current_time: what time.time() returns.
update_feed(ret, edges, current_time) ==
    /\ variant \in EdgeVariants
    /\ cap = "open"
    /\ variant = "ccqt" => running
    /\ IF ~ret
       THEN UNCHANGED prog_vars
       ELSE LET masked == ApplyMask(variant, edges, params.detection_area)
                count == CountNonZero(masked)
                detected == event_detected(count, params.threshold)
                fires == (variant \in TkVariants => running)
                         /\ EdgeGate(detected, current_time,
                                     last_event_time,
                                     params.cooldown_enabled, params.cooldown)
            IN /\ now' = current_time
               /\ frames' = frames + 1
               /\ obs' = [Observe(detected, fires,
                                  params.cooldown_enabled, current_time)
                             EXCEPT !.edges = edges, !.masked = masked,
                                    !.count = count,
                                    !.kernel = gb_val(variant,
                                                      params.gaussian_blur)]
               /\ IF fires
                  THEN /\ handle_event(current_time)
                       /\ update_last_event_time(current_time)
                       /\ last_fire' = current_time
                  ELSE UNCHANGED <<saved_images, last_event_time, last_fire>>
               /\ UNCHANGED <<variant, running, cap, params, save_events,
                              plot_vars, preset_vars>>

\* ccm.py:429-469, ccm_100.py:341-413.  mean_val: np.mean(gray);
\* current_time: what time.time() returns.
\* A series that keeps its latest max_event_lines points only.
update_data_pruned(mean_val) ==
    /\ xvals' = Prune(Append(xvals, NextX))
    /\ mean_values' = Prune(Append(mean_values, mean_val))

\* ccm.py:109-118 PlotManager.update_data, ccm_100.py:360-365
update_data(mean_val) ==
    /\ xvals' = Append(xvals, NextX)
    /\ mean_values' = Append(mean_values, mean_val)

handle_new_frame(mean_val, current_time) ==
    /\ variant \in MeanVariants
    /\ LET criterion == mean_val > params.threshold
           fires == MeanGate(criterion, current_time, last_event_time,
                             params.cooldown)
           filename == FileName(params.filename_prefix, current_time)
       IN /\ now' = current_time
          /\ update_data(mean_val)
          /\ frames' = frames + 1
          /\ obs' = [Observe(criterion, fires, TRUE, current_time)
                        EXCEPT !.points = Len(xvals')]
          /\ IF fires
             THEN /\ update_last_event_time(current_time)
                  /\ last_fire' = current_time
                  /\ IF save_events
                     THEN /\ saved_images' = saved_images \cup {filename}
                          /\ MarkEvent(NextX, filename)
                     ELSE UNCHANGED <<saved_images, event_lines, event_labels,
                                      recorded>>
             ELSE UNCHANGED <<last_event_time, last_fire, saved_images,
                              event_lines, event_labels, recorded>>
          /\ UNCHANGED <<variant, running, cap, params, save_events,
                         preset_vars>>

------------------------------------------------------------------------------
(* Controls: sliders and the callbacks behind them *)

PresetVariants == {"ccqt", "cc_v3", "cc_110"}

\* The sliders that hold one number, and the front ends that have them.
ScalarSliders(v) ==
    {"threshold", "low_threshold", "high_threshold", "contrast", "brightness",
     "saturation", "black_point", "cooldown"}
        \cup (IF v \in {"ccqt", "cc_v3"} THEN {"gaussian_blur"} ELSE {})

\* ccqt.py:26-29, v3/cc.py:45-48: the initial ranges of the two Canny sliders.
DefaultCannyRange ==
    [low_min |-> 10, low_max |-> 300, high_min |-> 50, high_max |-> 300]

\* setRange / from_, to of each slider; contrast and saturation in tenths.
SliderMin(f) ==
    CASE f = "threshold"      -> 100
      [] f = "low_threshold"  -> canny_range.low_min
      [] f = "high_threshold" -> canny_range.high_min
      [] f = "contrast"       -> 5
      [] f = "brightness"     -> 0 - 100
      [] f = "saturation"     -> 5
      [] f = "black_point"    -> 0 - 100
      [] f = "cooldown"       -> CooldownMin(variant)
      [] f = "gaussian_blur"  -> 1

SliderMax(f) ==
    CASE f = "threshold"      -> 5000
      [] f = "low_threshold"  -> canny_range.low_max
      [] f = "high_threshold" -> canny_range.high_max
      [] f = "contrast"       -> 30
      [] f = "brightness"     -> 100
      [] f = "saturation"     -> 30
      [] f = "black_point"    -> 100
      [] f = "cooldown"       -> CooldownMax
      [] f = "gaussian_blur"  -> 15

\* Range of the detection-area slider of coordinate i of <<x1, y1, x2, y2>>.
AreaMax(i) == IF i \in {1, 3} THEN FRAME_WIDTH(variant) ELSE FRAME_HEIGHT(variant)

Clamp(x, lo, hi) == IF x < lo THEN lo ELSE IF x > hi THEN hi ELSE x

\* What the callback of slider f stores for the slider value x.  Only
\* update_gaussian_blur of v3/cc.py changes the value (even -> next odd);
\* contrast and saturation are stored as value / 10.0, kept here in tenths.
Callback(v, f, x) ==
    IF f = "gaussian_blur" /\ v = "cc_v3" /\ x % 2 = 0 THEN x + 1 ELSE x

\* The value slider f shows when it is set to x: setValue and Scale.set bound
\* it to the range of the slider.
Shown(f, x) == Clamp(x, SliderMin(f), SliderMax(f))

ShownArea(i, x) == Clamp(x, 0, AreaMax(i))

\* The live value of f after the program has assigned x to it and then set
\* the slider to x: the callback runs only if the slider moved.
AfterSet(f, x) ==
    IF Shown(f, x) # sliders[f] THEN Callback(variant, f, Shown(f, x)) ELSE x

AfterSetArea(i, x) ==
    IF ShownArea(i, x) # sliders.detection_area[i] THEN ShownArea(i, x) ELSE x

\* The sliders as built at start-up.  v3/cc.py:571-583 never sets the
\* contrast and saturation sliders, which start at from_ = 0.5.
InitSliders(v) ==
    [threshold      |-> DefaultThreshold(v),
     low_threshold  |-> 50,
     high_threshold |-> 150,
     contrast       |-> IF v = "cc_v3" THEN 5 ELSE 10,
     brightness     |-> 0,
     saturation     |-> IF v = "cc_v3" THEN 5 ELSE 10,
     black_point    |-> 0,
     cooldown       |-> 5,
     detection_area |-> <<0, 0, FRAME_WIDTH(v), FRAME_HEIGHT(v)>>,
     gaussian_blur  |-> 5]

\* The user moves slider f to value: update_threshold, update_canny_low,
\* update_canny_high, update_contrast, update_brightness, update_saturation,
\* update_black_point, update_cooldown, update_gaussian_blur.
MoveSlider(f, value) ==
    /\ sliders' = [sliders EXCEPT ![f] = value]
    /\ params' = [params EXCEPT ![f] = Callback(variant, f, value)]

\* ccqt.py:698-701, v3/cc.py:220-224, ccm.py:382-384, ccm_100.py:273
update_cooldown(value) ==
    /\ MoveSlider("cooldown", value)
    /\ UNCHANGED <<variant, frame_vars, canny_range, store_vars>>

\* ccqt.py:703-706, v3/cc.py:226-230
toggle_cooldown ==
    /\ variant \in EdgeVariants
    /\ params' = [params EXCEPT !.cooldown_enabled = ~params.cooldown_enabled]
    /\ UNCHANGED <<variant, frame_vars, sliders, canny_range, store_vars>>

\* ccqt.py:672-676, v3/cc.py:189-194, ccm.py:471-473
toggle_save ==
    /\ save_events' = ~save_events
    /\ UNCHANGED <<variant, now, running, cap, params, last_event_time,
                   saved_images, frames, obs, last_fire, plot_vars,
                   preset_vars, loop_vars>>

\* The callback of scalar slider f when the user moves it to value.
update_slider(f, value) ==
    /\ f \in ScalarSliders(variant)
    /\ SliderMin(f) <= value /\ value <= SliderMax(f)
    /\ value # sliders[f]
    /\ MoveSlider(f, value)
    /\ UNCHANGED <<variant, frame_vars, canny_range, store_vars>>

\* ccqt.py:728-746, v3/cc.py:256-278 update_detection_area_x1 .. _y2
update_detection_area(i, val) ==
    /\ HasDetectionArea(variant)
    /\ 0 <= val /\ val <= AreaMax(i)
    /\ val # sliders.detection_area[i]
    /\ sliders' = [sliders EXCEPT !.detection_area[i] = val]
    /\ params' = [params EXCEPT !.detection_area[i] = val]
    /\ UNCHANGED <<variant, frame_vars, canny_range, store_vars>>

\* ccqt.py:748-759, v3/cc.py:280-291, cc_110.py:238-249: the four globals are
\* assigned and their sliders set; ccqt.py also sets the blur slider to 5.
reset_video_controls ==
    /\ variant \in PresetVariants
    /\ params' = [f \in DOMAIN params |->
                     IF f \in {"contrast", "saturation"} THEN AfterSet(f, 10)
                     ELSE IF f \in {"brightness", "black_point"}
                     THEN AfterSet(f, 0)
                     ELSE IF f = "gaussian_blur" /\ variant = "ccqt"
                             /\ sliders[f] # 5
                     THEN 5
                     ELSE params[f]]
    /\ sliders' = [f \in DOMAIN sliders |->
                     IF f \in {"contrast", "saturation"} THEN Shown(f, 10)
                     ELSE IF f \in {"brightness", "black_point"}
                     THEN Shown(f, 0)
                     ELSE IF f = "gaussian_blur" /\ variant = "ccqt" THEN 5
                     ELSE sliders[f]]
    /\ UNCHANGED <<variant, frame_vars, canny_range, store_vars>>

\* ccqt.py:693-696, v3/cc.py:214-218
update_filename_prefix(text) ==
    /\ text # params.filename_prefix
    /\ params' = [params EXCEPT !.filename_prefix = text]
    /\ UNCHANGED <<variant, frame_vars, sliders, canny_range, store_vars>>

\* ccqt.py:861-907, v3/cc.py:390-416 update_canny_low_min, update_canny_low_max,
\* update_canny_high_min, update_canny_high_max: the range of a Canny slider
\* changes, the slider keeps its value inside the range and runs its callback
\* if that moved it.
update_canny_range(bound, val) ==
    LET new_range == [canny_range EXCEPT ![bound] = val]
        f == IF bound \in {"low_min", "low_max"}
             THEN "low_threshold" ELSE "high_threshold"
        lo == IF f = "low_threshold" THEN new_range.low_min ELSE new_range.high_min
        hi == IF f = "low_threshold" THEN new_range.low_max ELSE new_range.high_max
        shown == Clamp(sliders[f], lo, hi)
    IN /\ variant \in {"ccqt", "cc_v3"}
       /\ val # canny_range[bound]
       /\ lo <= hi
       /\ canny_range' = new_range
       /\ sliders' = [sliders EXCEPT ![f] = shown]
       /\ params' = IF shown # sliders[f]
                    THEN [params EXCEPT ![f] = shown]
                    ELSE params
       /\ UNCHANGED <<variant, frame_vars, store_vars>>

------------------------------------------------------------------------------
(* Presets *)

\* The names a user types or selects; "" is the empty entry.
NameTexts == {"", "default", "trial"}

\* The keys save_preset writes: ccqt.py:768-781, v3/cc.py:295-307,
\* cc_110.py:253-264.
SavedFields(v) ==
    {"threshold", "low_threshold", "high_threshold", "contrast", "brightness",
     "saturation", "black_point", "cooldown", "cooldown_enabled",
     "filename_prefix"}
        \cup (IF v \in {"ccqt", "cc_v3"} THEN {"detection_area"} ELSE {})
        \cup (IF v = "ccqt" THEN {"gaussian_blur"} ELSE {})

\* The keys load_preset reads with preset[key], in the order it reads them:
\* ccqt.py:816-826, v3/cc.py:322-332, cc_110.py:275-284.
LoadOrder(v) ==
    <<"threshold", "low_threshold", "high_threshold", "contrast", "brightness",
      "saturation", "black_point", "cooldown", "cooldown_enabled",
      "filename_prefix">>
        \o (IF v \in {"ccqt", "cc_v3"} THEN <<"detection_area">> ELSE <<>>)

\* The parameters the user can tune in each front end.
Tunables(v) ==
    {"threshold", "low_threshold", "high_threshold", "contrast", "brightness",
     "saturation", "black_point", "cooldown", "cooldown_enabled",
     "filename_prefix"}
        \cup (IF v \in {"ccqt", "cc_v3"}
              THEN {"detection_area", "gaussian_blur"} ELSE {})

\* Contents of a preset file.  json.dump followed by json.load gives back the
\* same integers, floats (tenths here), booleans and strings, and the
\* detection area as a list of the same four integers.
NoData == [f \in {} |-> 0]
NoFile == [kind |-> "none", data |-> NoData]
Malformed == [kind |-> "malformed", data |-> NoData]
Json(preset) == [kind |-> "json", data |-> preset]

\* The preset dictionary save_preset builds from the live parameters.
PresetDict(v) == [f \in SavedFields(v) |-> params[f]]

\* A file left by cc_110.py, whose save_preset writes ten keys.
ForeignPreset == [f \in SavedFields("cc_110") |-> DefaultParams("cc_110")[f]]

NoPobs == [n |-> 0, op |-> "none", name |-> "", result |-> "none",
           asked |-> FALSE, confirmed |-> FALSE]

NeverSaved(v) == [saved |-> FALSE, live |-> DefaultParams(v)]

\* Index in LoadOrder of the first key that preset lacks (Len + 1 if none).
FirstMissing(v, preset) ==
    CHOOSE i \in 1 .. (Len(LoadOrder(v)) + 1) :
        /\ \A j \in 1 .. (i - 1) : LoadOrder(v)[j] \in DOMAIN preset
        /\ i <= Len(LoadOrder(v)) => LoadOrder(v)[i] \notin DOMAIN preset

\* The keys assigned before load_preset raises KeyError.
AssignedBeforeError(v, preset) ==
    {LoadOrder(v)[j] : j \in 1 .. (FirstMissing(v, preset) - 1)}

\* ccqt.py:783-792, v3/cc.py:308-310: the overwrite check.  cc_110.py has
\* none.
KnownPreset(name) == variant # "cc_110" /\ name \in available_presets

\* ccqt.py:767: the entry text or "default"; v3/cc.py, cc_110.py: the global
\* preset_name.
SaveName == IF variant = "ccqt" /\ preset_name = "" THEN "default" ELSE preset_name

\* ccqt.py:762-800, v3/cc.py:293-313, cc_110.py:251-267
save_preset(confirm) ==
    /\ ~crashed
    /\ IF KnownPreset(SaveName) /\ ~confirm
       THEN /\ pobs' = [n |-> pobs.n + 1, op |-> "save", name |-> SaveName,
                        result |-> "declined", asked |-> TRUE,
                        confirmed |-> FALSE]
            /\ UNCHANGED <<disk, saved_at, available_presets, preset_combo>>
       ELSE /\ disk' = [disk EXCEPT ![SaveName] = Json(PresetDict(variant))]
            /\ saved_at' = [saved_at EXCEPT
                               ![SaveName] = [saved |-> TRUE, live |-> params]]
            /\ available_presets' =
                   IF variant = "ccqt"
                   THEN available_presets \cup {SaveName}
                   ELSE available_presets
            /\ preset_combo' =
                   IF variant = "ccqt" /\ available_presets = {}
                   THEN SaveName
                   ELSE preset_combo
            /\ pobs' = [n |-> pobs.n + 1, op |-> "save", name |-> SaveName,
                        result |-> "saved", asked |-> KnownPreset(SaveName),
                        confirmed |-> KnownPreset(SaveName) /\ confirm]
    /\ UNCHANGED <<variant, frame_vars, params, sliders, canny_range,
                   preset_name, crashed, edits>>

\* ccqt.py:807: the combo's current text; v3/cc.py:318: preset_var;
\* cc_110.py:273: the global preset_name.
LoadName == IF variant = "cc_110" THEN preset_name ELSE preset_combo

\* A not-found branch that falls back to the start-up parameters.
PresetNotFoundResets ==
    /\ pobs' = [n |-> pobs.n + 1, op |-> "load", name |-> LoadName,
                result |-> "not_found", asked |-> FALSE, confirmed |-> FALSE]
    /\ params' = DefaultParams(variant)
    /\ UNCHANGED <<sliders, crashed>>

\* ccqt.py:847-848, v3/cc.py:351-352, cc_110.py:299-300: FileNotFoundError is
\* caught and logged.
PresetNotFound ==
    /\ pobs' = [n |-> pobs.n + 1, op |-> "load", name |-> LoadName,
                result |-> "not_found", asked |-> FALSE, confirmed |-> FALSE]
    /\ UNCHANGED <<params, sliders, crashed>>

\* ccqt.py:808-810: nothing is selected in the combo.
NoPresetSelected ==
    /\ pobs' = [n |-> pobs.n + 1, op |-> "load", name |-> LoadName,
                result |-> "none_selected", asked |-> FALSE,
                confirmed |-> FALSE]
    /\ UNCHANGED <<params, sliders, crashed>>

\* An exception load_preset does not catch.  Tk reports it and goes on; in
\* PyQt5 an exception leaving a slot is printed or ends the application,
\* depending on the version.
Uncaught(end) ==
    /\ pobs' = [n |-> pobs.n + 1, op |-> "load", name |-> LoadName,
                result |-> "exception", asked |-> FALSE, confirmed |-> FALSE]
    /\ crashed' = (variant = "ccqt" /\ end)

\* json.load raises json.JSONDecodeError before anything is assigned.
PresetUnreadable(end) ==
    /\ Uncaught(end)
    /\ UNCHANGED <<params, sliders>>

\* preset[key] raises KeyError at the first missing key, after the keys before
\* it have been assigned to the globals and before any slider is set.
PresetIncomplete(preset, end) ==
    /\ Uncaught(end)
    /\ params' = [f \in DOMAIN params |->
                     IF f \in AssignedBeforeError(variant, preset)
                     THEN preset[f] ELSE params[f]]
    /\ UNCHANGED sliders

\* The value load_preset leaves in the global f before it sets the sliders;
\* ccqt.py:827 reads gaussian_blur with a default of 5.
Loaded(preset, f) ==
    IF \E j \in 1 .. Len(LoadOrder(variant)) : LoadOrder(variant)[j] = f
    THEN preset[f]
    ELSE IF f = "gaussian_blur" /\ variant = "ccqt"
    THEN (IF f \in DOMAIN preset THEN preset[f] ELSE 5)
    ELSE params[f]

\* The sliders load_preset sets: ccqt.py:830-844, v3/cc.py:334-348,
\* cc_110.py:286-293.
SetOnLoad(v) ==
    IF v = "cc_v3" THEN ScalarSliders(v) \ {"gaussian_blur"} ELSE ScalarSliders(v)

\* All keys are present: the globals are assigned, then the sliders are set
\* and the callbacks of the sliders that moved store the shown value.
PresetApplied(preset) ==
    /\ params' = [f \in DOMAIN params |->
                     IF f \in SetOnLoad(variant)
                     THEN AfterSet(f, Loaded(preset, f))
                     ELSE IF f = "detection_area" /\ HasDetectionArea(variant)
                     THEN [i \in 1 .. 4 |-> AfterSetArea(i, preset[f][i])]
                     ELSE Loaded(preset, f)]
    /\ sliders' = [f \in DOMAIN sliders |->
                     IF f \in SetOnLoad(variant)
                     THEN Shown(f, Loaded(preset, f))
                     ELSE IF f = "detection_area" /\ HasDetectionArea(variant)
                     THEN [i \in 1 .. 4 |-> ShownArea(i, preset[f][i])]
                     ELSE sliders[f]]
    /\ pobs' = [n |-> pobs.n + 1, op |-> "load", name |-> LoadName,
                result |-> "loaded", asked |-> FALSE, confirmed |-> FALSE]
    /\ UNCHANGED crashed

\* ccqt.py:802-848, v3/cc.py:315-352, cc_110.py:269-300
load_preset(end) ==
    /\ ~crashed
    /\ IF variant = "ccqt" /\ LoadName = ""
       THEN NoPresetSelected
       ELSE CASE disk[LoadName].kind = "none" -> PresetNotFound
              [] disk[LoadName].kind = "malformed" -> PresetUnreadable(end)
              [] disk[LoadName].kind = "json" ->
                    IF FirstMissing(variant, disk[LoadName].data)
                           <= Len(LoadOrder(variant))
                    THEN PresetIncomplete(disk[LoadName].data, end)
                    ELSE PresetApplied(disk[LoadName].data)
    /\ UNCHANGED <<variant, frame_vars, canny_range, preset_name, preset_combo,
                   available_presets, disk, saved_at, edits>>

\* ccqt.py:850-853, v3/cc.py:354-358, cc_110.py:302-306
update_preset_name(text) ==
    /\ ~crashed
    /\ text # preset_name
    /\ preset_name' = text
    /\ UNCHANGED <<variant, frame_vars, params, sliders, canny_range,
                   preset_combo, available_presets, disk, crashed, saved_at,
                   pobs, edits>>

\* The user picks an entry of the preset drop-down, which lists
\* available_presets (ccqt.py:383-384, v3/cc.py:595-597).
select_preset(name) ==
    /\ ~crashed
    /\ variant \in {"ccqt", "cc_v3"}
    /\ name \in available_presets
    /\ name # preset_combo
    /\ preset_combo' = name
    /\ UNCHANGED <<variant, frame_vars, params, sliders, canny_range,
                   preset_name, available_presets, disk, crashed, saved_at,
                   pobs, edits>>

\* A preset file is deleted from the working directory outside the program.
RemoveFile(name) ==
    /\ disk[name].kind # "none"
    /\ disk' = [disk EXCEPT ![name] = NoFile]
    /\ saved_at' = [saved_at EXCEPT ![name] = NeverSaved(variant)]
    /\ UNCHANGED <<variant, frame_vars, params, sliders, canny_range,
                   preset_name, preset_combo, available_presets, crashed,
                   pobs>>

\* The working directory and the preset controls at start-up, for the files
\* in files: ccqt.py:380-384, v3/cc.py:595-597.
InitStore(files) ==
    /\ disk = files
    /\ available_presets = {n \in NameTexts : files[n].kind # "none"}
    /\ preset_combo \in
           IF variant = "cc_110" \/ available_presets = {}
           THEN {""}
           ELSE available_presets
    /\ preset_name = "default"
    /\ crashed = FALSE
    /\ saved_at = [n \in NameTexts |-> NeverSaved(variant)]
    /\ pobs = NoPobs

EmptyDisk == [n \in NameTexts |-> NoFile]

InitControls ==
    /\ sliders = InitSliders(variant)
    /\ canny_range = DefaultCannyRange
    /\ edits = 0

------------------------------------------------------------------------------
(* Specification of the frame pipeline of all front ends *)

\* clock: what time.time() returns when the program starts.
InitFrameAt(clock) ==
    /\ now = clock
    /\ running = FALSE
    /\ cap = "none"
    /\ params = DefaultParams(variant)
    /\ save_events = (variant \in MeanVariants)
    /\ last_event_time = 0
    /\ saved_images = {}
    /\ xvals = <<>>
    /\ mean_values = <<>>
    /\ event_lines = <<>>
    /\ event_labels = <<>>
    /\ frames = 0
    /\ obs = NoObs
    /\ last_fire = NoEvent
    /\ recorded = <<>>
    /\ pending = <<>>
    /\ feed = Idle
    /\ chains = 0
    /\ ticks = <<>>
    /\ thread = "none"
    /\ waiting = "none"

InitFrame == InitFrameAt(StartTime)

Init ==
    /\ variant \in Variants
    /\ InitFrame
    /\ InitControls
    /\ InitStore(EmptyDisk)

Start == \E opened \in BOOLEAN : StartCamera(opened) /\ UNCHANGED poll_vars

Stop == StopCamera /\ UNCHANGED poll_vars

\* ccm.py:59-63, ccm_100.py:37-40: the camera thread reads a frame while the
\* camera runs, and emits it.  In MeanFrame and HistFrame the GUI thread
\* handles the frame as soon as it is emitted.
FrameRead == running /\ cap = "open"

EdgeFrame ==
    \E ret \in BOOLEAN, count \in DetectorValues(variant), current_time \in Times :
        /\ frames < MaxFrames
        /\ update_feed(ret, EdgeMapOf(count), current_time)
        /\ UNCHANGED loop_vars

MeanFrame ==
    \E mean_val \in DetectorValues(variant), current_time \in Times :
        /\ frames < MaxFrames
        /\ FrameRead
        /\ handle_new_frame(mean_val, current_time)
        /\ UNCHANGED loop_vars

SetCooldown ==
    \E value \in CooldownChoices(variant) :
        update_cooldown(value) /\ UNCHANGED edits

ToggleCooldown == toggle_cooldown /\ UNCHANGED edits

Next ==
    \/ Start
    \/ Stop
    \/ EdgeFrame
    \/ MeanFrame
    \/ SetCooldown
    \/ ToggleCooldown
    \/ toggle_save

Spec == Init /\ [][Next]_vars

\* The edge-density front ends alone (they carry the cooldown_enabled flag).
InitEdge == Init /\ variant \in EdgeVariants

NextEdge ==
    \/ Start
    \/ Stop
    \/ EdgeFrame
    \/ SetCooldown
    \/ ToggleCooldown
    \/ toggle_save

SpecEdge == InitEdge /\ [][NextEdge]_vars

\* ---------------------------------------------------------------------------
\* The detector of the edge-density front ends: the user moves the threshold
\* and the detection-area sliders, and then frames with any edge map arrive.
\* ---------------------------------------------------------------------------
InitDetect == Init /\ variant \in EdgeVariants

\* Every edge map with no or 500 non-zero pixels in each quarter.
DetectEdgeMaps == [Cells -> {0, 500}]

\* The positions the user drags a detection-area slider to: the borders and
\* the middle of the frame.
DetectAreaChoices(i) ==
    IF i \in {1, 3} THEN {XCuts(variant)[k] : k \in 1..3}
    ELSE {YCuts(variant)[k] : k \in 1..3}

DetectThresholdChoices == {1000, 2000}

DetectFrame ==
    \E ret \in BOOLEAN, edges \in DetectEdgeMaps :
        /\ frames < MaxDetectFrames
        /\ update_feed(ret, edges, StartTime + MaxTime)
        /\ UNCHANGED loop_vars

SetDetectionArea ==
    \E i \in 1..4 : \E val \in DetectAreaChoices(i) :
        frames = 0 /\ update_detection_area(i, val) /\ UNCHANGED edits

SetThreshold ==
    \E value \in DetectThresholdChoices :
        frames = 0 /\ update_slider("threshold", value) /\ UNCHANGED edits

NextDetect ==
    \/ Start
    \/ Stop
    \/ DetectFrame
    \/ SetDetectionArea
    \/ SetThreshold

SpecDetect == InitDetect /\ [][NextDetect]_vars

\* ---------------------------------------------------------------------------
\* Video conditioning.  A pixel is <<b, g, r>>, each channel 0 .. 255;
\* contrast and saturation are in tenths, as everywhere in this module.
\* ---------------------------------------------------------------------------
\* The front ends that condition the frame (cc.py does not).
VideoVariants == {"ccqt", "cc_v3", "cc_110", "ccm", "ccm_100"}

\* np.clip(x, 0, 255)
ClipByte(x) == IF x < 0 THEN 0 ELSE IF x > 255 THEN 255 ELSE x

\* cvRound of n / d for d > 0: to the nearest integer, ties to the even one.
RoundEven(n, d) ==
    LET q == n \div d
        twice == 2 * (n % d)
    IN IF twice < d THEN q
       ELSE IF twice > d THEN q + 1
       ELSE IF q % 2 = 0 THEN q ELSE q + 1

Max3(a, b, c) ==
    IF a >= b /\ a >= c THEN a ELSE IF b >= c THEN b ELSE c

Min3(a, b, c) ==
    IF a <= b /\ a <= c THEN a ELSE IF b <= c THEN b ELSE c

\* ccqt.py:552-564, ccm.py:432-436: table = clip(scale * (arange(256) +
\* shift), 0, 255).astype(uint8) with shift = brightness - black_point; the
\* cast drops the fraction.
Table(settings, i) ==
    ClipByte((settings.contrast
                * (i + settings.brightness - settings.black_point)) \div 10)

\* cv2.LUT(frame, table)
LUT(settings, px) ==
    <<Table(settings, px[1]), Table(settings, px[2]), Table(settings, px[3])>>

\* cv2.cvtColor(frame, cv2.COLOR_BGR2HSV) on 8-bit channels: V is the largest
\* channel, S = 255 * (V - min) / V and H = hue / 2 in 0 .. 179, both in
\* 12-bit fixed point from the tables sdiv_table and hdiv_table.
BGR2HSV(px) ==
    LET b == px[1]
        g == px[2]
        r == px[3]
        v == Max3(b, g, r)
        diff == v - Min3(b, g, r)
        sdiv == IF v = 0 THEN 0 ELSE RoundEven(255 * 4096, v)
        hdiv == IF diff = 0 THEN 0 ELSE RoundEven(180 * 4096, 6 * diff)
        hnum == IF v = r THEN g - b
                ELSE IF v = g THEN b - r + 2 * diff
                ELSE r - g + 4 * diff
        h == (hnum * hdiv + 2048) \div 4096
    IN <<IF h < 0 THEN h + 180 ELSE h, (diff * sdiv + 2048) \div 4096, v>>

\* cv2.cvtColor(hsv, cv2.COLOR_HSV2BGR) on 8-bit channels: the sector of the
\* hue is H div 30 and its fraction (H mod 30) / 30; each channel is rounded
\* to the nearest integer.
HSV2BGR(hsv) ==
    LET h == hsv[1]
        s == hsv[2]
        v == hsv[3]
        sector == (h \div 30) % 6
        hm == h % 30
        tab == <<v,
                 RoundEven(v * (255 - s), 255),
                 RoundEven(v * (7650 - s * hm), 7650),
                 RoundEven(v * (7650 - s * (30 - hm)), 7650)>>
        sector_data == <<<<2, 4, 1>>, <<2, 1, 3>>, <<4, 1, 2>>,
                         <<1, 3, 2>>, <<1, 2, 4>>, <<3, 2, 1>>>>
    IN IF s = 0 THEN <<v, v, v>>
       ELSE <<tab[sector_data[sector + 1][1]],
              tab[sector_data[sector + 1][2]],
              tab[sector_data[sector + 1][3]]>>

\* ccqt.py:570-574, ccm.py:441-444, v3/cc.py:126-128: to HSV, S multiplied by
\* the saturation, clipped and cast to 8 bits, and back.
Saturate(settings, px) ==
    LET hsv == BGR2HSV(px)
    IN HSV2BGR(<<hsv[1], ClipByte((hsv[2] * settings.saturation) \div 10),
                 hsv[3]>>)

\* cv2.convertScaleAbs(frame, alpha=contrast, beta=brightness)
convertScaleAbs(settings, x) ==
    LET y == settings.contrast * x + 10 * settings.brightness
    IN ClipByte(RoundEven(IF y < 0 THEN 0 - y ELSE y, 10))

\* v3/cc.py:129, cc_110.py:113: np.clip(frame + black_point, 0, 255) on an
\* 8-bit frame and a black point of 0 or more: the sum wraps at 256 before
\* the clip.
AddBlackPoint(settings, x) == ClipByte((x + settings.black_point) % 256)

\* A conditioning whose mean-intensity path skips the table whenever the
\* contrast is 1.0.
apply_video_controls_unit_contrast(v, settings, px) ==
    IF v \in {"cc_v3", "cc_110"}
    THEN LET scaled == <<convertScaleAbs(settings, px[1]),
                         convertScaleAbs(settings, px[2]),
                         convertScaleAbs(settings, px[3])>>
             sat == Saturate(settings, scaled)
         IN <<AddBlackPoint(settings, sat[1]), AddBlackPoint(settings, sat[2]),
              AddBlackPoint(settings, sat[3])>>
    ELSE IF v = "cc" THEN px
    ELSE LET table == IF v \in MeanVariants /\ settings.contrast = 10
                      THEN px ELSE LUT(settings, px)
         IN IF settings.saturation # 10 THEN Saturate(settings, table)
            ELSE table

\* The conditioned value of pixel px: ccqt.py:544-576, ccm.py:429-444 and
\* ccm_100.py (look-up table, then saturation unless it is 1.0; ccm skips
\* the table when it is the identity), v3/cc.py:123-130 and cc_110.py:107-114
\* (scale, saturation through HSV always, black point added).
apply_video_controls(v, settings, px) ==
    IF v \in {"cc_v3", "cc_110"}
    THEN LET scaled == <<convertScaleAbs(settings, px[1]),
                         convertScaleAbs(settings, px[2]),
                         convertScaleAbs(settings, px[3])>>
             sat == Saturate(settings, scaled)
         IN <<AddBlackPoint(settings, sat[1]), AddBlackPoint(settings, sat[2]),
              AddBlackPoint(settings, sat[3])>>
    ELSE IF v = "cc" THEN px
    ELSE LET table == IF /\ v \in MeanVariants
                         /\ settings.brightness = 0
                         /\ settings.black_point = 0
                         /\ settings.contrast = 10
                      THEN px ELSE LUT(settings, px)
         IN IF settings.saturation # 10 THEN Saturate(settings, table)
            ELSE table

VideoSettings ==
    [contrast |-> params.contrast, brightness |-> params.brightness,
     saturation |-> params.saturation, black_point |-> params.black_point]

\* The pixels of the frames: black, white, a grey and three colours.
SamplePixels ==
    {<<0, 0, 0>>, <<255, 255, 255>>, <<128, 128, 128>>,
     <<0, 101, 200>>, <<200, 101, 0>>, <<10, 200, 30>>}

\* The positions the user drags the four video sliders to: contrast 1.0,
\* 1.5, brightness 0, 20, saturation 1.0, 1.5, black point 0, 10.
VideoChoices(f) ==
    CASE f = "contrast"    -> {10, 15}
      [] f = "brightness"  -> {0, 20}
      [] f = "saturation"  -> {10, 15}
      [] f = "black_point" -> {0, 10}

InitVideo == Init /\ variant \in VideoVariants

\* A frame with pixel px is conditioned under the current settings.
ConditionFrame ==
    \E px \in SamplePixels :
        /\ obs' = [obs EXCEPT !.conditioned = TRUE, !.pixel = px,
                              !.pixel_out = apply_video_controls(variant,
                                                VideoSettings, px),
                              !.video = VideoSettings]
        /\ UNCHANGED <<variant, now, running, cap, params, save_events,
                       last_event_time, saved_images, plot_vars, frames,
                       last_fire, preset_vars, loop_vars>>

SetVideo ==
    \E f \in {"contrast", "brightness", "saturation", "black_point"} :
        \E value \in VideoChoices(f) :
            update_slider(f, value) /\ UNCHANGED edits

NextVideo ==
    \/ ConditionFrame
    \/ SetVideo

SpecVideo == InitVideo /\ [][NextVideo]_vars

------------------------------------------------------------------------------
(* Specification of the event history of the mean-intensity front ends *)

InitHist == Init /\ variant \in MeanVariants

\* In this specification the camera delivers one frame a second.
HistFrame ==
    \E mean_val \in DetectorValues(variant) :
        /\ frames < MaxHistFrames
        /\ FrameRead
        /\ handle_new_frame(mean_val, now + 1)
        /\ UNCHANGED loop_vars

\* In this specification the cooldown is set before the first frame.
HistCooldown ==
    \E value \in CooldownChoices(variant) :
        frames = 0 /\ update_cooldown(value) /\ UNCHANGED edits

NextHist ==
    \/ Start
    \/ HistFrame
    \/ HistCooldown
    \/ ClearPlot

SpecHist == InitHist /\ [][NextHist]_vars

------------------------------------------------------------------------------
(* Specification of the preset store of the front ends that have one *)

\* The preset saved by an untouched session of front end v.
DefaultPreset(v) == [f \in SavedFields(v) |-> DefaultParams(v)[f]]

\* A preset saved by ccqt.py at its defaults; ccqt.py and v3/cc.py keep
\* their presets as <name>.json in the same working directory.
QtPreset == DefaultPreset("ccqt")

\* The preset files found at start-up.
InitialDisks(v) ==
    {EmptyDisk,
     [EmptyDisk EXCEPT !["default"] = Json(DefaultPreset(v))],
     [EmptyDisk EXCEPT !["default"] = Json(DefaultPreset(v)),
                       !["trial"] = Json(ForeignPreset)],
     [EmptyDisk EXCEPT !["default"] = Json(DefaultPreset(v)),
                       !["trial"] = Malformed],
     [EmptyDisk EXCEPT !["default"] = Json(DefaultPreset(v)),
                       !["trial"] = Json(QtPreset)]}

\* Values the user gives each control.
SliderChoices(f) ==
    CASE f = "threshold"      -> {1000, 2000}
      [] f = "low_threshold"  -> {50, 120}
      [] f = "high_threshold" -> {150, 200}
      [] f = "contrast"       -> {10, 15}
      [] f = "brightness"     -> {0, 20}
      [] f = "saturation"     -> {10, 15}
      [] f = "black_point"    -> {0, 10}
      [] f = "cooldown"       -> {1, 5}
      [] f = "gaussian_blur"  -> {5, 6}

AreaChoices(i) ==
    CASE i = 1 -> {0, 100}
      [] i = 2 -> {0, 100}
      [] i = 3 -> {320, FRAME_WIDTH(variant)}
      [] i = 4 -> {240, FRAME_HEIGHT(variant)}

CannyRangeChoices(bound) ==
    CASE bound = "low_min"  -> {10, 100}
      [] bound = "low_max"  -> {110, 300}
      [] bound = "high_min" -> {50, 160}
      [] bound = "high_max" -> {180, 300}

PrefixChoices == {"event", "run"}

InitPreset ==
    /\ variant \in PresetVariants
    /\ InitFrame
    /\ InitControls
    /\ \E files \in InitialDisks(variant) : InitStore(files)

SavePreset ==
    \E confirm \in BOOLEAN : pobs.n < MaxOps /\ save_preset(confirm)

LoadPreset ==
    \E end \in BOOLEAN : pobs.n < MaxOps /\ load_preset(end)

TypePresetName == \E text \in NameTexts : update_preset_name(text)

SelectPreset == \E name \in NameTexts : select_preset(name)

\* The controls the user changes in this specification: an integer slider
\* with an editable range, a slider in tenths, the blur slider, one corner of
\* the detection area, one bound of a Canny range, the prefix, the checkbox.
EditedSliders == {"low_threshold", "contrast", "gaussian_blur"}
EditedCorners == {3}
EditedBounds == {"low_min"}

\* A change by the user, counted against the bound on changes.
Counted == ~crashed /\ edits < MaxEdits /\ edits' = edits + 1

DeleteFile == \E name \in NameTexts : Counted /\ RemoveFile(name)

EditSlider ==
    \E f \in ScalarSliders(variant) \cap EditedSliders :
        \E value \in SliderChoices(f) : Counted /\ update_slider(f, value)

EditArea ==
    \E i \in EditedCorners : \E val \in AreaChoices(i) :
        Counted /\ update_detection_area(i, val)

EditPrefix ==
    \E text \in PrefixChoices : Counted /\ update_filename_prefix(text)

EditCannyRange ==
    \E bound \in EditedBounds : \E val \in CannyRangeChoices(bound) :
        Counted /\ update_canny_range(bound, val)

EditCooldownEnabled == Counted /\ toggle_cooldown

ResetVideo == ~crashed /\ reset_video_controls /\ UNCHANGED edits

NextPreset ==
    \/ SavePreset
    \/ LoadPreset
    \/ TypePresetName
    \/ SelectPreset
    \/ DeleteFile
    \/ EditSlider
    \/ EditArea
    \/ EditPrefix
    \/ EditCannyRange
    \/ EditCooldownEnabled
    \/ ResetVideo

SpecPreset == InitPreset /\ [][NextPreset]_vars

------------------------------------------------------------------------------
(* A machine whose clock reads the epoch when the program starts *)

InitEpoch ==
    /\ variant \in Variants
    /\ InitFrameAt(0)
    /\ InitControls
    /\ InitStore(EmptyDisk)

\* What time.time() returns in the first seconds after the epoch.
EpochTimes == now .. MaxTime

EpochEdgeFrame ==
    \E ret \in BOOLEAN, count \in DetectorValues(variant),
       current_time \in EpochTimes :
        /\ frames < MaxFrames
        /\ update_feed(ret, EdgeMapOf(count), current_time)
        /\ UNCHANGED loop_vars

EpochMeanFrame ==
    \E mean_val \in DetectorValues(variant), current_time \in EpochTimes :
        /\ frames < MaxFrames
        /\ FrameRead
        /\ handle_new_frame(mean_val, current_time)
        /\ UNCHANGED loop_vars

NextEpoch ==
    \/ Start
    \/ Stop
    \/ EpochEdgeFrame
    \/ EpochMeanFrame
    \/ SetCooldown
    \/ ToggleCooldown

SpecEpoch == InitEpoch /\ [][NextEpoch]_vars

------------------------------------------------------------------------------
(* The GUI thread and the camera thread *)

\* Callbacks and per-frame calls run on the GUI thread, one at a time, from
\* the event loop (app.exec_, root.mainloop); the camera thread of ccm.py and
\* ccm_100.py runs beside it, and its new_frame signal is queued for the GUI
\* thread.  A per-frame call is taken in two steps here, the conditioning
\* and the rest, so that what happens while it runs can be told.

\* An event loop that starts a callback while another one runs.
DispatchAnytime == TRUE

\* ccqt.py:929, ccm.py:533, v3/cc.py root.mainloop: the event loop takes the
\* next callback when the one before it has returned.
Dispatch == ~feed.busy

\* Frames read, queued or being handled.
InFlight == frames + Len(pending) + (IF feed.busy THEN 1 ELSE 0)

\* ccm.py:59-64, ccm_100.py:35-41 CameraThread.run, one turn of its loop with
\* ret true: the frame is emitted, which queues a call of handle_new_frame.
CameraThread_run(mean_val) ==
    /\ variant \in MeanVariants
    /\ FrameRead
    /\ pending' = Append(pending, mean_val)
    /\ UNCHANGED <<prog_vars, feed, poll_vars>>

\* The event loop starts the per-frame call: update_feed from its timer
\* (ccqt.py:509-521, v3/cc.py:85-101), handle_new_frame for the oldest queued
\* signal (ccm.py:429-444).  The call reads the video settings and
\* conditions the frame.
BeginFrame ==
    /\ Dispatch
    /\ IF variant \in MeanVariants
       THEN /\ pending # <<>>
            /\ feed' = [busy |-> TRUE, read |-> params, mean |-> Head(pending)]
            /\ pending' = Tail(pending)
       ELSE /\ cap = "open"
            /\ variant = "ccqt" => running
            /\ InFlight < MaxLoopFrames
            /\ feed' = [busy |-> TRUE, read |-> params, mean |-> 0]
            /\ UNCHANGED pending
    /\ UNCHANGED <<prog_vars, poll_vars>>

\* The rest of the call: detection, gate and event (ccqt.py:522-542,
\* v3/cc.py:102-121, ccm.py:445-469).
EndFrame ==
    /\ feed.busy
    /\ feed' = Idle
    /\ IF variant \in MeanVariants
       THEN handle_new_frame(feed.mean, StartTime + MaxTime)
       ELSE \E count \in DetectorValues(variant) :
                update_feed(TRUE, EdgeMapOf(count), StartTime + MaxTime)
    /\ UNCHANGED <<pending, poll_vars>>

InitLoop == Init

Emit ==
    \E mean_val \in DetectorValues(variant) :
        InFlight < MaxLoopFrames /\ CameraThread_run(mean_val)

LoopStart == Dispatch /\ Start

LoopStop == Dispatch /\ Stop

LoopSetContrast ==
    \E value \in VideoChoices("contrast") :
        Dispatch /\ update_slider("contrast", value) /\ UNCHANGED edits

NextLoop ==
    \/ LoopStart
    \/ LoopStop
    \/ Emit
    \/ BeginFrame
    \/ EndFrame
    \/ LoopSetContrast

SpecLoop == InitLoop /\ [][NextLoop]_vars

------------------------------------------------------------------------------
(* Polling: the timers of the edge front ends and the camera thread of the *)
(* mean-intensity front ends                                               *)

\* What a polling callback or a read of the camera thread came to:
\* "frame" a frame was read, "failed" cap.read() gave none, "idle" the
\* callback returned before reading, "stale" the capture was read after its
\* release.
Outcomes == {"frame", "failed", "idle", "stale"}

\* A callback that stops polling after a failed read.
RescheduleUntilFailure(v, outcome, n) ==
    IF outcome = "failed" THEN n - 1 ELSE n

\* Scheduled callbacks after one update_feed callback ran.  Tk: the callback
\* that ran is replaced by the one it schedules on each of its paths
\* (cc.py:74,80,96; v3/cc.py:89,95,121; cc_110.py:80,86,105).  Qt: the
\* periodic update_timer stays active (ccqt.py:161-162, 509-517).
Reschedule(v, outcome, n) == n

\* Scheduled callbacks after start_camera: root.after(10, update_feed) adds a
\* callback (cc.py:131, v3/cc.py:167, cc_110.py:149), update_timer.start(10)
\* (re)starts the one timer (ccqt.py:486); nothing when the device fails to
\* open.
ScheduleOnStart(v, opened, n) ==
    IF ~opened THEN n
    ELSE IF v \in TkVariants THEN n + 1
    ELSE IF v = "ccqt" THEN 1
    ELSE n

\* Scheduled callbacks after stop_camera: update_timer.stop() (ccqt.py:495);
\* the Tk stop_camera cancels nothing (cc.py:133-140, v3/cc.py:169-176,
\* cc_110.py:151-158).
ScheduleOnStop(v, n) == IF v = "ccqt" THEN 0 ELSE n

\* The GUI thread runs one handler at a time, and none after closeEvent.
GuiFree == waiting = "none" /\ ~feed.busy

InitPoll == Init

\* start_camera with its timer or thread: ccm.py:404-406, ccm_100.py:315-317
\* create and start a new CameraThread.
PollStart ==
    \E opened \in BOOLEAN :
        /\ GuiFree
        /\ chains < MaxChains
        /\ StartCamera(opened)
        /\ chains' = ScheduleOnStart(variant, opened, chains)
        /\ thread' = IF variant \in MeanVariants /\ opened THEN "test"
                     ELSE thread
        /\ UNCHANGED <<ticks, waiting>>

\* stop_camera of the edge front ends.
PollStop ==
    /\ GuiFree
    /\ variant \in EdgeVariants
    /\ StopCamera
    /\ chains' = ScheduleOnStop(variant, chains)
    /\ UNCHANGED <<ticks, thread, waiting>>

\* select_camera (cc.py:142-151, v3/cc.py:178-187, cc_110.py:160-169,
\* ccqt.py:497-508): stop_camera, then start_camera when the camera was
\* running.  stop_camera leaves cap None, so start_camera opens the device.
select_camera(opened) ==
    /\ variant \in EdgeVariants
    /\ running
    /\ running' = opened
    /\ cap' = IF opened THEN "open" ELSE "closed"
    /\ chains' = ScheduleOnStart(variant, opened,
                                 ScheduleOnStop(variant, chains))
    /\ UNCHANGED <<variant, now, params, save_events, last_event_time,
                   saved_images, frames, obs, last_fire, plot_vars,
                   preset_vars, queue_vars, ticks, thread, waiting>>

SelectCamera ==
    \E opened \in BOOLEAN :
        GuiFree /\ chains < MaxChains /\ select_camera(opened)

\* One scheduled update_feed callback runs (cc.py:70-96, v3/cc.py:85-121,
\* cc_110.py:76-105, ccqt.py:509-600).
PollTick ==
    \E ret \in BOOLEAN, count \in DetectorValues(variant) :
        LET reads == cap = "open" /\ (variant = "ccqt" => running)
            outcome == IF ~reads THEN "idle"
                       ELSE IF ret THEN "frame" ELSE "failed"
        IN /\ GuiFree
           /\ variant \in EdgeVariants
           /\ chains > 0
           /\ Len(ticks) < MaxTicks
           /\ frames < MaxFrames
           /\ IF reads
              THEN update_feed(ret, EdgeMapOf(count), StartTime + MaxTime)
              ELSE UNCHANGED prog_vars
           /\ ticks' = Append(ticks, outcome)
           /\ chains' = Reschedule(variant, outcome, chains)
           /\ UNCHANGED <<queue_vars, thread, waiting>>

\* CameraThread.run, the loop condition (ccm.py:59, ccm_100.py:38).
ThreadTest ==
    /\ thread = "test"
    /\ thread' = IF running /\ cap = "open" THEN "read" ELSE "done"
    /\ UNCHANGED <<prog_vars, queue_vars, chains, ticks, waiting>>

\* CameraThread.run, the body (ccm.py:60-63, ccm_100.py:39-42): read, emit
\* when a frame came, sleep.  The outcome is recorded while there is room.
ThreadRead ==
    \E ret \in BOOLEAN, mean_val \in DetectorValues(variant) :
        LET outcome == IF cap # "open" THEN "stale"
                       ELSE IF ret THEN "frame" ELSE "failed"
        IN /\ thread = "read"
           /\ ret => Len(pending) + frames < MaxFrames
           /\ pending' = IF outcome = "frame" THEN Append(pending, mean_val)
                         ELSE pending
           /\ ticks' = IF Len(ticks) < MaxTicks THEN Append(ticks, outcome)
                       ELSE ticks
           /\ thread' = "test"
           /\ UNCHANGED <<prog_vars, feed, chains, waiting>>

\* The queued new_frame signal reaches handle_new_frame (ccm.py:406, 429).
Deliver ==
    /\ GuiFree
    /\ variant \in MeanVariants
    /\ pending # <<>>
    /\ handle_new_frame(Head(pending), StartTime + MaxTime)
    /\ pending' = Tail(pending)
    /\ UNCHANGED <<feed, poll_vars>>

\* stop_camera and closeEvent of the mean-intensity front ends up to
\* camera_thread.wait() (ccm.py:412-415, 511-513; ccm_100.py:324-327,
\* 455-458).
BeginWait ==
    \E handler \in {"stop_camera", "closeEvent"} :
        /\ GuiFree
        /\ variant \in MeanVariants
        /\ running' = FALSE
        /\ waiting' = handler
        /\ UNCHANGED <<variant, now, cap, params, save_events,
                       last_event_time, saved_images, frames, obs, last_fire,
                       plot_vars, preset_vars, queue_vars, chains, ticks,
                       thread>>

\* A wait() that returns while the thread still runs.
JoinedAtOnce == TRUE

\* wait() returns once run() has returned, or at once without a thread.
Joined == thread \in {"none", "done"}

\* stop_camera after the wait (ccm.py:416-424, ccm_100.py:328-336).
EndStop ==
    /\ waiting = "stop_camera"
    /\ Joined
    /\ StopCamera
    /\ thread' = "none"
    /\ waiting' = "none"
    /\ UNCHANGED <<chains, ticks>>

\* closeEvent after the wait (ccm.py:514-521, ccm_100.py:459-466): the
\* capture is released and kept, and the application ends.
EndClose ==
    /\ waiting = "closeEvent"
    /\ Joined
    /\ cap' = IF cap = "open" THEN "closed" ELSE cap
    /\ thread' = "none"
    /\ waiting' = "closed"
    /\ UNCHANGED <<variant, now, running, params, save_events,
                   last_event_time, saved_images, frames, obs, last_fire,
                   plot_vars, preset_vars, queue_vars, chains, ticks>>

NextPoll ==
    \/ PollStart
    \/ PollStop
    \/ SelectCamera
    \/ PollTick
    \/ ThreadTest
    \/ ThreadRead
    \/ Deliver
    \/ BeginWait
    \/ EndStop
    \/ EndClose

SpecPoll == InitPoll /\ [][NextPoll]_vars

\* The camera thread is scheduled, and a handler whose wait() returned goes
\* on.
SpecPollLive ==
    /\ SpecPoll
    /\ WF_vars(ThreadTest)
    /\ WF_vars(ThreadRead)
    /\ WF_vars(EndStop)
    /\ WF_vars(EndClose)

------------------------------------------------------------------------------
(* Claims about the cooldown gate *)

FrameStep == frames' = frames + 1

\* C1: for every processed frame, the event fires if and only if the
\* criterion is met and (cooldown is disabled, or no event has fired before,
\* or now minus the last-event time is strictly greater than the interval).
C1_FiresIffRule ==
    obs.n > 0 =>
        (obs.fired <=>
            /\ obs.criterion
            /\ \/ ~obs.enabled
               \/ ~obs.had_event
               \/ obs.t - obs.prev > obs.interval)

\* C2: with interval 5, an earlier event and the criterion met, a frame
\* arriving d seconds after the last event does not fire for d in (0,5], in
\* particular not at d = 5, and fires for d > 5.
C2_BoundaryNotEligible ==
    (obs.n > 0 /\ obs.criterion /\ obs.enabled /\ obs.had_event
        /\ obs.interval = 5) =>
        /\ (obs.t - obs.last_fire > 0 /\ obs.t - obs.last_fire <= 5) => ~obs.fired
        /\ obs.t - obs.last_fire > 5 => obs.fired

\* C3: with cooldown enabled, a fired event comes more than the interval
\* after the fired event before it; with interval 5 a qualifying frame 1 s
\* after a fired one does not fire (one event), one 6 s after it fires (two).
C3_EventsMoreThanIntervalApart ==
    (obs.n > 0 /\ obs.enabled /\ obs.had_event) =>
        /\ obs.fired => obs.t - obs.last_fire > obs.interval
        /\ (obs.criterion /\ obs.interval = 5 /\ obs.t - obs.last_fire = 1)
               => ~obs.fired
        /\ (obs.criterion /\ obs.interval = 5 /\ obs.t - obs.last_fire = 6)
               => obs.fired

\* C3 witness: a second event fired 6 s after the first, interval 5.
C3_Witness ==
    /\ obs.n > 0 /\ obs.enabled /\ obs.had_event /\ obs.fired
    /\ obs.interval = 5 /\ obs.t - obs.last_fire = 6

\* C4: the last-event time becomes now exactly on a frame that fires, and no
\* other frame or operation changes it.
C4_CommitExactlyOnFire ==
    [][IF FrameStep /\ obs'.fired
       THEN last_event_time' = now'
       ELSE last_event_time' = last_event_time]_vars

\* C4 witness: a qualifying frame inside the cooldown left the last-event
\* time at the time of the event before it.
C4_Witness ==
    /\ obs.n > 1 /\ obs.criterion /\ ~obs.fired /\ obs.had_event
    /\ last_event_time = obs.last_fire /\ obs.t > last_event_time

\* C6: in the front ends that keep an event history, a frame appends exactly
\* one event record if it fires and none if it does not.
C6_OneRecordPerFiredEvent ==
    [][(FrameStep /\ variant \in MeanVariants) =>
          Len(recorded') = Len(recorded) + (IF obs'.fired THEN 1 ELSE 0)]_vars

------------------------------------------------------------------------------
(* Claims about the event history *)

\* C5: the event history holds exactly the most recent min(k, N) recorded
\* events in insertion order (N = max_event_lines, k = number recorded since
\* the last clear), never more than N, and their positions are strictly
\* increasing.
C5_HistoryIsLatestN ==
    LET k == Len(recorded)
        m == IF k < max_event_lines THEN k ELSE max_event_lines
    IN /\ Len(event_labels) <= max_event_lines
       /\ Len(event_lines) <= max_event_lines
       /\ event_labels = SubSeq(recorded, k - m + 1, k)
       /\ event_lines = [i \in 1 .. m |-> recorded[k - m + i].pos]
       /\ \A i \in 1 .. (Len(event_lines) - 1) :
              event_lines[i] < event_lines[i + 1]

\* C5 witness: the (N+1)-th event was recorded and the earliest one is gone.
C5_Witness ==
    /\ Len(recorded) = max_event_lines + 1
    /\ Len(event_labels) = max_event_lines
    /\ event_labels[1] = recorded[2]
    /\ event_labels[max_event_lines] = recorded[max_event_lines + 1]

------------------------------------------------------------------------------
(* Claims about the preset store *)

PresetStep == pobs'.n = pobs.n + 1

\* C7: a save whose name already has a record on disk either obtains the
\* user's confirmation first or leaves that record unchanged.
C7_NoSilentOverwrite ==
    [][(PresetStep /\ pobs'.op = "save" /\ disk[pobs'.name].kind # "none") =>
          \/ pobs'.asked /\ pobs'.confirmed
          \/ disk'[pobs'.name] = disk[pobs'.name]]_vars

\* C8: loading a name restores every tunable parameter to its value at the
\* time the name was saved, whatever was changed in between.
C8_RoundTrip ==
    [][(PresetStep /\ pobs'.op = "load" /\ pobs'.result = "loaded"
           /\ saved_at[pobs'.name].saved) =>
          \A f \in Tunables(variant) :
              params'[f] = saved_at[pobs'.name].live[f]]_vars

\* C9: a load of a record that is malformed or lacks a required key leaves
\* every live parameter at its value before the load.
C9_FailedLoadChangesNothing ==
    [][(PresetStep /\ pobs'.op = "load" /\ pobs'.result = "exception") =>
          params' = params]_vars

\* C10: a load of a name with no record on disk reports not-found and leaves
\* every live parameter unchanged.  (With nothing selected in its drop-down,
\* ccqt.py has no name to look for and reports that instead.)
C10_NotFoundChangesNothing ==
    [][(PresetStep /\ pobs'.op = "load" /\ disk[LoadName].kind = "none") =>
          /\ params' = params
          /\ IF variant = "ccqt" /\ LoadName = ""
             THEN pobs'.result = "none_selected"
             ELSE pobs'.result = "not_found"]_vars

\* C10 witness: a load reported not-found after the user had changed a
\* parameter, and the change is still there.
C10_Witness ==
    /\ pobs.op = "load" /\ pobs.result = "not_found"
    /\ disk[pobs.name].kind = "none"
    /\ edits > 0 /\ params # DefaultParams(variant)

\* ---------------------------------------------------------------------------
\* The detection area and the criterion
\* ---------------------------------------------------------------------------
\* The latest frame was masked by a detection area.
Masked == obs.n > 0 /\ HasDetectionArea(variant)

\* The quarter c of the frame lies inside the rectangle [x1, x2) x [y1, y2).
CellInside(c, area) ==
    /\ area[1] <= XCuts(variant)[c[1]] /\ XCuts(variant)[c[1] + 1] <= area[3]
    /\ area[2] <= YCuts(variant)[c[2]] /\ YCuts(variant)[c[2] + 1] <= area[4]

\* C11: when the detection area is degenerate or inverted (x1 >= x2 or
\* y1 >= y2) the masked edge map is all zero, the count is 0 and the frame
\* does not fire.
C11_DegenerateAreaIsEmpty ==
    (Masked /\ (obs.area[1] >= obs.area[3] \/ obs.area[2] >= obs.area[4]))
        => (obs.masked = NoEdges /\ obs.count = 0 /\ ~obs.fired)

\* A frame whose unmasked edge map exceeds the threshold met an inverted area.
C11_Witness ==
    /\ Masked
    /\ obs.area[1] > obs.area[3]
    /\ CountNonZero(obs.edges) > obs.threshold
    /\ obs.count = 0 /\ ~obs.fired

\* C12: for a well-formed detection area inside the frame the mask sets to
\* zero exactly the pixels outside [x1, x2) x [y1, y2) and leaves every pixel
\* inside unchanged.
C12_MaskKeepsExactlyTheArea ==
    (/\ Masked
     /\ 0 <= obs.area[1] /\ obs.area[1] < obs.area[3]
     /\ obs.area[3] <= FRAME_WIDTH(variant)
     /\ 0 <= obs.area[2] /\ obs.area[2] < obs.area[4]
     /\ obs.area[4] <= FRAME_HEIGHT(variant))
        => \A c \in Cells :
              obs.masked[c] = IF CellInside(c, obs.area) THEN obs.edges[c] ELSE 0

\* A frame with edges in every quarter met an area that is one quarter only.
C12_Witness ==
    /\ Masked
    /\ obs.area = <<XCuts(variant)[2], 0, FRAME_WIDTH(variant), YCuts(variant)[2]>>
    /\ \A c \in Cells : obs.edges[c] > 0
    /\ obs.masked = [c \in Cells |-> IF c = <<2, 1>> THEN obs.edges[c] ELSE 0]

\* C13: the criterion is met exactly when the count of non-zero pixels of
\* the masked edge map is strictly greater than the threshold; a count equal
\* to the threshold does not qualify, and a frame without edges counts 0 and
\* never fires.
C13_CriterionIsStrict ==
    obs.n > 0 =>
        /\ obs.count = CountNonZero(obs.masked)
        /\ obs.criterion <=> (obs.count > obs.threshold)
        /\ obs.count = obs.threshold => ~obs.fired
        /\ obs.edges = NoEdges => (obs.count = 0 /\ ~obs.fired)

\* A frame whose count equals the threshold was handled and did not fire.
C13_Witness ==
    /\ obs.n > 0
    /\ obs.count = obs.threshold
    /\ ~obs.criterion /\ ~obs.fired

\* ---------------------------------------------------------------------------
\* Video conditioning
\* ---------------------------------------------------------------------------
\* Contrast 1.0, brightness 0, black point 0, saturation 1.0.
IdentitySettings ==
    [contrast |-> 10, brightness |-> 0, saturation |-> 10, black_point |-> 0]

\* C14: with contrast 1, brightness 0, black_point 0 and saturation 1 the
\* conditioning returns the frame unchanged: every channel value 0 .. 255
\* maps to itself and every pixel comes out as it went in.
C14_IdentityConditioning ==
    /\ \A i \in 0..255 :
          apply_video_controls(variant, IdentitySettings, <<i, i, i>>)
              = <<i, i, i>>
    /\ (obs.conditioned /\ obs.video = IdentitySettings)
          => obs.pixel_out = obs.pixel

\* ---------------------------------------------------------------------------
\* The scalar series of the mean-intensity front ends
\* ---------------------------------------------------------------------------
IsPrefix(old, new) ==
    Len(old) <= Len(new) /\ SubSeq(new, 1, Len(old)) = old

\* C15: every processed frame appends exactly one point to the scalar
\* series, and no point ever leaves the series except by the clear operation.
C15_SeriesGrowsByOnePerFrame ==
    [][\/ ClearPlot
       \/ /\ IsPrefix(xvals, xvals') /\ IsPrefix(mean_values, mean_values')
          /\ Len(xvals') = Len(mean_values')
          /\ Len(xvals') = Len(xvals) + (IF FrameStep THEN 1 ELSE 0)]_vars

\* The series holds more points than the event history may hold records.
C15_Witness ==
    /\ Len(xvals) > max_event_lines
    /\ Len(mean_values) = Len(xvals)
    /\ Len(event_lines) = max_event_lines

\* C16: the clear operation empties both the event history and the scalar
\* series.  (A step that takes points out of the series is a clear.)
C16_ClearEmptiesHistoryAndSeries ==
    [][Len(xvals') < Len(xvals)
         => /\ xvals' = <<>> /\ mean_values' = <<>>
            /\ event_lines' = <<>> /\ event_labels' = <<>>]_vars

\* Frames were handled and events were marked, and the plot was cleared since.
C16_Witness ==
    /\ frames > 0 /\ saved_images # {}
    /\ xvals = <<>> /\ mean_values = <<>>
    /\ event_lines = <<>> /\ event_labels = <<>>

\* ---------------------------------------------------------------------------
\* The GUI thread and the camera thread
\* ---------------------------------------------------------------------------
\* C17: all parameter reads within one per-frame call see one snapshot: no
\* parameter-update callback takes effect between the first and the last
\* read of the call, so the parameters at the end of the call are those the
\* frame was conditioned with.
C17_OneSnapshotPerCall ==
    [][(feed.busy /\ ~feed'.busy) => params = feed.read]_vars

\* A call is running with a contrast the user has set, and the camera thread
\* has emitted another frame meanwhile.
C17_Witness ==
    /\ feed.busy /\ feed.read.contrast = 15
    /\ pending # <<>>

\* C18: the frame handoff is a single-slot, latest-wins channel: at most one
\* emitted frame is pending at any time.
C18_AtMostOnePending == Len(pending) <= 1

\* C19: once stop_camera has completed, no frame handled before the camera
\* is started again fires an event or changes the last-event time, the event
\* history or the scalar series.
C19_NoEffectAfterStop ==
    [][(~running /\ FrameStep)
         => /\ ~obs'.fired
            /\ UNCHANGED <<last_event_time, event_lines, event_labels,
                           xvals, mean_values>>]_vars

\* ---------------------------------------------------------------------------
\* The first event
\* ---------------------------------------------------------------------------
\* C20: the first frame whose criterion is met after program start fires,
\* whatever the cooldown configuration and whatever the value of now: as
\* long as no event has fired, a frame whose criterion is met fires.
C20_FirstQualifyingFrameFires ==
    (obs.n > 0 /\ obs.criterion /\ ~obs.had_event) => obs.fired

\* ---------------------------------------------------------------------------
\* The order of the steps of a per-frame call
\* ---------------------------------------------------------------------------
\* C21: within one per-frame call the frame's scalar value is appended to
\* the plotting series only after the cooldown evaluation, the commit and the
\* event record: when the gate is evaluated the series does not hold the
\* frame's point yet, and an event record made by the call is placed at the
\* last point the series held before the call.
C21_SeriesAppendedLast ==
    [][(FrameStep /\ variant \in MeanVariants)
         => /\ obs'.points = Len(xvals)
            /\ (Len(recorded') > Len(recorded) /\ xvals # <<>>)
                  => recorded'[Len(recorded')].pos = xvals[Len(xvals)]]_vars

\* ---------------------------------------------------------------------------
\* Ties and file names
\* ---------------------------------------------------------------------------
\* C22: with cooldown enabled and interval 0, a qualifying frame that carries
\* the same timestamp as the last fired event does not fire, so at most one
\* event fires per distinct value of now.
C22_NoSecondEventAtSameTime ==
    (/\ obs.n > 0 /\ obs.enabled /\ obs.interval = 0
     /\ obs.criterion /\ obs.had_event /\ obs.t = obs.last_fire)
        => ~obs.fired

\* ---------------------------------------------------------------------------
\* The conditioning transform
\* ---------------------------------------------------------------------------
\* clamp(contrast * (in + (brightness - black_point)), 0, 255), truncated;
\* contrast in tenths.
SpecTransform(settings, i) ==
    LET y == settings.contrast * (i + (settings.brightness - settings.black_point))
    IN IF y < 0 THEN 0 ELSE IF y >= 2550 THEN 255 ELSE y \div 10

\* C23: in every front end, for every channel value 0 .. 255 and every
\* setting of contrast, brightness and black_point (saturation at 1.0), the
\* conditioning outputs clamp(contrast * (in + (brightness - black_point)),
\* 0, 255) truncated to an integer.
C23_TransformFormula ==
    params.saturation = 10 =>
        \A i \in 0..255 :
            apply_video_controls(variant, VideoSettings, <<i, i, i>>)
                = <<SpecTransform(VideoSettings, i),
                    SpecTransform(VideoSettings, i),
                    SpecTransform(VideoSettings, i)>>

\* C24: the special-cased conditioning of the mean-intensity front end (table
\* skipped at brightness 0, black_point 0, contrast 1; saturation step
\* skipped at saturation 1) gives, for every setting and every input, the
\* output of the general path that always builds and applies the table.
C24_SpecialCasesAgreeWithGeneralPath ==
    /\ \A px \in SamplePixels \cup {<<i, i, i>> : i \in 0..255} :
          apply_video_controls("ccm", VideoSettings, px)
              = apply_video_controls("ccqt", VideoSettings, px)
    /\ (obs.conditioned /\ variant \in MeanVariants)
          => obs.pixel_out
                = apply_video_controls("ccqt", obs.video, obs.pixel)

\* The mean-intensity front end conditioned a coloured pixel both with the
\* table skipped and with the table applied at contrast 1.0.
C24_Witness ==
    /\ variant = "ccm" /\ obs.conditioned
    /\ obs.pixel = <<0, 101, 200>>
    /\ obs.video.contrast = 10 /\ obs.video.brightness = 20
    /\ obs.video.saturation = 10
    /\ obs.pixel_out = <<20, 121, 220>>

\* ---------------------------------------------------------------------------
\* Invariants of the parameters
\* ---------------------------------------------------------------------------
\* C25: the kernel size handed to the smoothing step is always an odd
\* positive integer, after any sequence of blur-slider updates, video-control
\* resets and preset loads; an even size k the user asked for with the slider
\* has become k + 1.
C25_KernelOddPositive ==
    LET kernel == gb_val(variant, params.gaussian_blur)
    IN /\ kernel > 0 /\ kernel % 2 = 1
       /\ (variant \in {"ccqt", "cc_v3"} /\ sliders.gaussian_blur % 2 = 0)
             => kernel = sliders.gaussian_blur + 1

\* A preset holding the even size 6 was loaded, and the kernel is 7.
C25_Witness ==
    /\ variant = "ccqt"
    /\ pobs.op = "load" /\ pobs.result = "loaded"
    /\ params.gaussian_blur = 6
    /\ gb_val(variant, params.gaussian_blur) = 7

\* C26: in every reachable state, after any sequence of detection-area
\* slider updates and preset loads, x1 and x2 lie in [0, width] and y1 and y2
\* in [0, height].
C26_DetectionAreaInsideFrame ==
    /\ \A i \in {1, 3} : /\ 0 <= params.detection_area[i]
                         /\ params.detection_area[i] <= FRAME_WIDTH(variant)
    /\ \A i \in {2, 4} : /\ 0 <= params.detection_area[i]
                         /\ params.detection_area[i] <= FRAME_HEIGHT(variant)

------------------------------------------------------------------------------
(* Claims about polling and the camera thread *)

\* C27: a failed frame read is a no-op tick.  The step that records a
\* failed cap.read() changes neither the last-event time nor the event
\* history nor the scalar series nor the saved images, it ends nothing (no
\* crash, the camera stays as open and as running as it was), and the loop
\* goes on: the edge front ends keep every scheduled callback, the camera
\* thread returns to its loop condition, so the next successful read is
\* handled.
C27_FailedReadIsNoOpTick ==
    [][ticks' = Append(ticks, "failed") =>
          /\ UNCHANGED <<last_event_time, last_fire, event_lines,
                         event_labels, xvals, mean_values, saved_images,
                         recorded, frames, crashed, pending, running,
                         cap>>
          /\ IF variant \in EdgeVariants
             THEN chains' = chains /\ chains' > 0
             ELSE thread' = "test"]_vars

\* A failed read was followed by a read whose frame has been processed.
C27_Witness == ticks = <<"failed", "frame">> /\ frames = 1

\* C28: in the Tk front ends at most one update_feed callback is scheduled
\* at any time, whatever the sequence of start-camera, stop-camera and
\* select-camera operations.
C28_AtMostOneChain == variant \in TkVariants => chains <= 1

\* C29: the camera thread never reads the capture after it was released or
\* set to None.  Whenever the thread is about to call cap.read() the
\* capture is open, no read found it released, the capture leaves the open
\* state only when the thread has left its loop (or there is none), and a
\* stop_camera or closeEvent that waits for the thread gets past its wait.
C29_ReleaseAfterThreadExit ==
    /\ [](thread = "read" => cap = "open")
    /\ [](\A i \in 1..Len(ticks) : ticks[i] # "stale")
    /\ [][cap = "open" /\ cap' # "open" => thread \in {"none", "done"}]_vars
    /\ (waiting \in {"stop_camera", "closeEvent"})
           ~> (waiting \in {"none", "closed"})

\* stop_camera released the capture of a thread that had read a frame.
C29_Witness ==
    /\ variant \in MeanVariants
    /\ cap = "none" /\ thread = "none" /\ waiting = "none"
    /\ \E i \in 1..Len(ticks) : ticks[i] = "frame"

------------------------------------------------------------------------------
(* Claims about the saved images *)

\* C30: saved event images are named {prefix}_{whole seconds of the event
\* time}, and with an unchanged prefix no two distinct fired events are
\* written to the same file name: a frame that fires and saves its image
\* writes a file that no earlier event wrote.
C30_NoSavedImageOverwritten ==
    [][(frames' = frames + 1 /\ obs'.fired /\ obs'.saving) =>
          /\ FileName(params.filename_prefix, obs'.t) \in saved_images'
          /\ FileName(params.filename_prefix, obs'.t) \notin saved_images]_vars

====
